---- MODULE Spec2Model ----
(***************************************************************************)
(* Model of run.py: the batch orchestrator grade() and the container       *)
(* lifecycle manager create_container().  Paths and names are sequences of *)
(* one-character strings, so that the regular expressions and basename are *)
(* computed as the code computes them.  The docker daemon is the variable  *)
(* containers: the list cli.containers(all=True) returns, newest first.    *)
(* Assignment.new, Assignment.image_tag and Assignment.build_image of      *)
(* models/assignment.py have a specification of their own, SpecAssign.     *)
(***************************************************************************)
EXTENDS Integers, Sequences, FiniteSets, TLC

VARIABLES
    argv,        \* the command line: [folder, image, extra], the same for every run
    disk,        \* what the paths of argv name: [folderIsDir, extraKind, dirnames, filenames]
    tmpfiles,    \* the temporary archives make_gzip has written and os.remove has not deleted
    extra,       \* args.extra, which grade() rebinds to the temporary archive
    cleanup,     \* grade()'s cleanup list
    pc,          \* grade()'s position: "start", "loop", "returned", "done", "crashed"
    idx,         \* number of submissions the two for loops have taken so far
    containers,  \* the daemon's containers, as cli.containers(all=True) lists them
    nextId,      \* the id the daemon gives to the next container it creates
    run,         \* number of the current invocation of run.py
    atStart,     \* history: the containers when the current invocation started
    calls,       \* history: the calls made on cli in the current invocation
    failures,    \* history: the kinds of call that failed in the current invocation
    last,        \* history: the latest create_container call of the current invocation
    deleted,     \* history: the paths os.remove deleted in the current invocation
    made,        \* history: the paths make_gzip returned in the current invocation
    prev,        \* history: how the previous invocation ended
    injected,    \* number of calls that have failed so far
    fs,          \* for every grader, its assignments directory: [root, paths]
    assignments, \* the Assignment objects Assignment.new has returned
    images,      \* the images build_image has built, with their tags
    outcome      \* history: the latest call of Assignment.new

\* the variables of run.py
grading == <<argv, disk, tmpfiles, extra, cleanup, pc, idx, containers, nextId, run,
             atStart, calls, failures, last, deleted, made, prev, injected>>

\* the variables of models/assignment.py
bookkeeping == <<fs, assignments, images, outcome>>

vars == <<argv, disk, tmpfiles, extra, cleanup, pc, idx, containers, nextId, run,
          atStart, calls, failures, last, deleted, made, prev, injected,
          fs, assignments, images, outcome>>

-----------------------------------------------------------------------------
(* Bounds of the model *)

MaxSubs == 2     \* entries of the batch folder
MaxPre == 1      \* containers of earlier batches the daemon holds before the first invocation
MaxRuns == 2     \* invocations of run.py in succession
MaxFail == 1     \* calls (on the daemon, of make_gzip) that fail, over all invocations
MaxAssignments == 2  \* assignment directories Assignment.new makes, over all graders

-----------------------------------------------------------------------------
(* Strings *)

S_HW8 == <<"H", "W", "8">>
S_alice == <<"a", "l", "i", "c", "e">>
S_bob == <<"b", "o", "b">>
S_carol == <<"c", "a", "r", "o", "l">>
S_submit == <<"_", "s", "u", "b", "m", "i", "t">>
S_targz == <<".", "t", "a", "r", ".", "g", "z">>
S_zip == <<".", "z", "i", "p">>
S_tmp == <<"/", "t", "m", "p", "/">>
S_extra == <<"e", "x", "t", "r", "a">>
S_proxy_db == <<"/", "p", "r", "o", "x", "y", "/", "d", "b">>
S_web == <<"/", "w", "e", "b">>

NoExtra == <<>>     \* args.extra is None

Range(s) == {s[i] : i \in 1..Len(s)}

EndsWith(s, t) ==
    /\ Len(t) <= Len(s)
    /\ SubSeq(s, Len(s) - Len(t) + 1, Len(s)) = t

\* os.path.basename: what follows the last "/"
Basename(p) ==
    LET slashes == {i \in 1..Len(p) : p[i] = "/"}
        from == IF slashes = {} THEN 1
                ELSE (CHOOSE i \in slashes : \A j \in slashes : j <= i) + 1
    IN  SubSeq(p, from, Len(p))

\* os.path.join(dirpath, x)
Join(dirpath, x) ==
    IF EndsWith(dirpath, <<"/">>) THEN dirpath \o x ELSE dirpath \o <<"/">> \o x

\* re.sub(r'_submit$', '', s)
StripSubmit(s) ==
    IF EndsWith(s, S_submit) THEN SubSeq(s, 1, Len(s) - Len(S_submit)) ELSE s

\* re.sub(r'(_submit|\.[^\/]+)$', '', s): the leftmost position where either
\* "_submit" or a dot followed by one or more non-slash characters reaches
\* the end of s; everything from there on is removed
StripSuffix(s) ==
    LET matches == {i \in 1..Len(s) :
                       \/ SubSeq(s, i, Len(s)) = S_submit
                       \/ /\ s[i] = "."
                          /\ i < Len(s)
                          /\ \A j \in (i + 1)..Len(s) : s[j] # "/"}
    IN  IF matches = {} THEN s
        ELSE SubSeq(s, 1, (CHOOSE i \in matches : \A j \in matches : i <= j) - 1)

\* user, lines 55-57 of create_container
UserOf(file) == StripSuffix(Basename(file))

\* name, line 61 of create_container
ContainerName(folder, file) == Basename(folder) \o <<"_">> \o UserOf(file)

\* the path of the archive make_gzip(path, name) writes
MakeGzipPath(path, name) ==
    S_tmp \o (IF name = <<>> THEN Basename(path) ELSE name) \o S_targz

-----------------------------------------------------------------------------
(* The docker daemon *)

MemLimitMiB == 64

Images == {"course-hw8", "other-image"}

\* one call on cli, as the history variable calls records it
Call(op, id, name, src, ok) == [op |-> op, id |-> id, name |-> name, src |-> src, ok |-> ok]

\* a container made without network_disabled=True
NewContainer_Networked(id, name, image) ==
    [Id |-> id, Names |-> << <<"/">> \o name >>, Image |-> image,
     NetworkDisabled |-> FALSE, MemLimit |-> MemLimitMiB, Files |-> <<>>]

\* what the daemon reports of a container that cli.create_container made
NewContainer(id, name, image) ==
    [Id |-> id, Names |-> << <<"/">> \o name >>, Image |-> image,
     NetworkDisabled |-> TRUE, MemLimit |-> MemLimitMiB, Files |-> <<>>]

\* cli.put_archive(container=id, path="/home/", data=<the content of src>)
PutArchive(cs, id, src) ==
    [i \in 1..Len(cs) |->
        IF cs[i].Id = id THEN [cs[i] EXCEPT !.Files = Append(@, src)] ELSE cs[i]]

Ids(cs) == {cs[i].Id : i \in 1..Len(cs)}

\* the daemon refuses to create a container under a name in use
NameInUse(cs, name) ==
    \E i \in 1..Len(cs) : \E k \in 1..Len(cs[i].Names) : cs[i].Names[k] = <<"/">> \o name

-----------------------------------------------------------------------------
(* create_container *)

\* the points where a call of create_container can fail
FailPoints == {"none", "list", "remove", "create", "put", "putextra"}

\* a comparison that takes a name beginning with the target for the target
NameMatches_Prefix(container_name, name) ==
    /\ Len(container_name) > Len(name)
    /\ SubSeq(container_name, 2, Len(name) + 1) = name

\* a comparison that forgets the prefix: container_name == name
NameMatches_NoStrip(container_name, name) == container_name = name

\* a comparison of the part up to the underscore only: the batch folder
NameMatches_Folder(container_name, name) ==
    LET upTo(n) == SubSeq(n, 1, CHOOSE i \in 0..Len(n) :
                                   /\ i = 0 \/ n[i] = "_"
                                   /\ \A j \in 1..Len(n) : n[j] = "_" => i # 0 /\ i <= j)
    IN  upTo(SubSeq(container_name, 2, Len(container_name))) = upTo(name)

\* container_name[1:] == name
NameMatches(container_name, name) == SubSeq(container_name, 2, Len(container_name)) = name

\* some name of c matches, lines 66-67
Matches(c, name) == \E k \in 1..Len(c.Names) : NameMatches(c.Names[k], name)

\* the image test left out
ImageDiffers_Never(c, image) == FALSE

\* the image test inverted
ImageDiffers_Inverted(c, image) == c.Image = image

\* c['Image'] != image, line 69
ImageDiffers(c, image) == c.Image # image

\* the loop with the return of line 81 left out: a failed removal is reported
\* and the loop goes on
RECURSIVE ScanFrom_NoReturn(_, _, _, _, _, _, _)
ScanFrom_NoReturn(listed, i, name, image, f, removed, log) ==
    IF i > Len(listed)
    THEN [status |-> "proceed", removed |-> removed, calls |-> log]
    ELSE LET c == listed[i] IN
         IF ~(\E k \in 1..Len(c.Names) : SubSeq(c.Names[k], 2, Len(c.Names[k])) = name)
         THEN ScanFrom_NoReturn(listed, i + 1, name, image, f, removed, log)
         ELSE IF c.Image # image
         THEN [status |-> "skipped", removed |-> removed, calls |-> log]
         ELSE IF f = "remove"
         THEN ScanFrom_NoReturn(listed, i + 1, name, image, f, removed,
                                Append(log, Call("remove", c.Id, <<>>, <<>>, FALSE)))
         ELSE ScanFrom_NoReturn(listed, i + 1, name, image, f, removed \cup {c.Id},
                                Append(log, Call("remove", c.Id, <<>>, <<>>, TRUE)))

\* the loop of lines 65-82 from the i-th listed container on; removed and log
\* are the ids removed and the calls made so far
RECURSIVE ScanFrom(_, _, _, _, _, _, _)
ScanFrom(listed, i, name, image, f, removed, log) ==
    IF i > Len(listed)
    THEN [status |-> "proceed", removed |-> removed, calls |-> log]
    ELSE LET c == listed[i] IN
         IF ~Matches(c, name)
         THEN ScanFrom(listed, i + 1, name, image, f, removed, log)
         ELSE IF ImageDiffers(c, image)
         THEN [status |-> "skipped", removed |-> removed, calls |-> log]
         ELSE IF f = "remove"
         THEN [status |-> "removal_failed", removed |-> removed,
               calls |-> Append(log, Call("remove", c.Id, <<>>, <<>>, FALSE))]
         ELSE ScanFrom(listed, i + 1, name, image, f, removed \cup {c.Id},
                       Append(log, Call("remove", c.Id, <<>>, <<>>, TRUE)))

Result(cs, nid, status, log, failed) ==
    [containers |-> cs, nextId |-> nid, status |-> status, calls |-> log, failed |-> failed]

\* a failed copy followed by the removal of the container just made
Materialize_Rollback(cs, nid, id, file, ex, exReadable, f, log) ==
    LET without == SelectSeq(cs, LAMBDA c : c.Id # id) IN
    IF f = "put"
    THEN Result(without, nid, "raised",
                Append(log, Call("put", id, <<>>, file, FALSE)), {"put"})
    ELSE LET log1 == Append(log, Call("put", id, <<>>, file, TRUE))
         IN  IF ex = NoExtra
             THEN Result(PutArchive(cs, id, file), nid, "created", log1, {})
             ELSE IF f = "putextra" \/ ~exReadable
             THEN Result(without, nid, "raised",
                         Append(log1, Call("put", id, <<>>, ex, FALSE)), {"putextra"})
             ELSE Result(PutArchive(PutArchive(cs, id, file), id, ex), nid, "created",
                         Append(log1, Call("put", id, <<>>, ex, TRUE)), {})

\* the extra archive copied before the submission's archive
Materialize_ExtraFirst(cs, nid, id, file, ex, exReadable, f, log) ==
    IF ex = NoExtra
    THEN IF f = "put"
         THEN Result(cs, nid, "raised",
                     Append(log, Call("put", id, <<>>, file, FALSE)), {"put"})
         ELSE Result(PutArchive(cs, id, file), nid, "created",
                     Append(log, Call("put", id, <<>>, file, TRUE)), {})
    ELSE IF f = "putextra" \/ ~exReadable
    THEN Result(cs, nid, "raised",
                Append(log, Call("put", id, <<>>, ex, FALSE)), {"putextra"})
    ELSE LET cs1 == PutArchive(cs, id, ex)
             log1 == Append(log, Call("put", id, <<>>, ex, TRUE))
         IN  IF f = "put"
             THEN Result(cs1, nid, "raised",
                         Append(log1, Call("put", id, <<>>, file, FALSE)), {"put"})
             ELSE Result(PutArchive(cs1, id, file), nid, "created",
                         Append(log1, Call("put", id, <<>>, file, TRUE)), {})

\* lines 89-99: the submission's archive, then the extra archive if there is one
Materialize(cs, nid, id, file, ex, exReadable, f, log) ==
    IF f = "put"
    THEN Result(cs, nid, "raised", Append(log, Call("put", id, <<>>, file, FALSE)), {"put"})
    ELSE LET cs1 == PutArchive(cs, id, file)
             log1 == Append(log, Call("put", id, <<>>, file, TRUE))
         IN  IF ex = NoExtra
             THEN Result(cs1, nid, "created", log1, {})
             ELSE IF f = "putextra" \/ ~exReadable
             THEN Result(cs1, nid, "raised",
                         Append(log1, Call("put", id, <<>>, ex, FALSE)), {"putextra"})
             ELSE Result(PutArchive(cs1, id, ex), nid, "created",
                         Append(log1, Call("put", id, <<>>, ex, TRUE)), {})

\* lines 84-88: cli.create_container, then the copies
Create(cs, nid, name, file, image, ex, exReadable, f, log) ==
    IF f = "create" \/ NameInUse(cs, name)
    THEN Result(cs, nid, "raised", Append(log, Call("create", 0, name, <<>>, FALSE)), {"create"})
    ELSE Materialize(<<NewContainer(nid, name, image)>> \o cs, nid + 1, nid, file, ex,
                     exReadable, f, Append(log, Call("create", nid, name, <<>>, TRUE)))

\* create_container(cli, folder, file, image, extra), lines 50-99, with the
\* daemon holding cs and failing at f
create_container(cs, nid, folder, file, image, ex, exReadable, f) ==
    LET name == ContainerName(folder, file) IN
    IF f = "list"
    THEN Result(cs, nid, "raised", <<Call("list", 0, <<>>, <<>>, FALSE)>>, {"list"})
    ELSE LET scan == ScanFrom(cs, 1, name, image, f, {}, <<Call("list", 0, <<>>, <<>>, TRUE)>>)
             kept == SelectSeq(cs, LAMBDA c : c.Id \notin scan.removed)
         IN  IF scan.status = "skipped"
             THEN Result(kept, nid, "skipped", scan.calls, {})
             ELSE IF scan.status = "removal_failed"
             THEN Result(kept, nid, "removal_failed", scan.calls, {"remove"})
             ELSE Create(kept, nid, name, file, image, ex, exReadable, f, scan.calls)

-----------------------------------------------------------------------------
(* models/assignment.py, models/gradesheet.py *)

\* the course-id and course-name of the graders' configurations on one machine
Graders ==
    { [id |-> <<"c", "s", "1">>, course |-> <<"a">>],
      [id |-> <<"c", "s", "1">>, course |-> <<"a", "-", "b">>],
      [id |-> <<"c", "s", "2">>, course |-> <<"a">>] }

N_hw1 == <<"h", "w", "1">>
N_b_hw1 == <<"b", "-", "h", "w", "1">>
N_space == <<"h", "w", " ", "1">>
N_newline == <<"h", "w", "1", "\n">>
N_empty == <<>>

\* the assignment_name arguments of Assignment.new
AssignmentNames == {N_hw1, N_b_hw1, N_space, N_newline, N_empty}

\* [A-Za-z0-9_.-]
NameChars ==
    {"a", "b", "c", "d", "e", "f", "g", "h", "i", "j", "k", "l", "m",
     "n", "o", "p", "q", "r", "s", "t", "u", "v", "w", "x", "y", "z",
     "A", "B", "C", "D", "E", "F", "G", "H", "I", "J", "K", "L", "M",
     "N", "O", "P", "Q", "R", "S", "T", "U", "V", "W", "X", "Y", "Z",
     "0", "1", "2", "3", "4", "5", "6", "7", "8", "9", "_", ".", "-"}

\* NAME_RE.match(name) for ^[A-Za-z0-9_.-]+$; $ matches at the end and before
\* a newline that ends the string
NAME_RE(name) ==
    LET body == IF name # <<>> /\ name[Len(name)] = "\n"
                THEN SubSeq(name, 1, Len(name) - 1)
                ELSE name
    IN  body # <<>> /\ \A i \in 1..Len(body) : body[i] \in NameChars

\* os.path.join(grader.assignment_dir, name, sub), below the assignments directory
Dir(name, sub) == [name |-> name, sub |-> sub]

\* os.path.exists(path) of line 87, the assignments directory f being there:
\* joined with the empty name the path is the assignments directory itself
Exists(f, name) == name = <<>> \/ Dir(name, "") \in f.paths

\* a check of the name that lets every name pass
NameRejected_Never(name) == FALSE

\* not cls.NAME_RE.match(assignment_name), line 91
NameRejected(name) == ~NAME_RE(name)

\* the gradesheet_repo arguments: None, a repository with a Dockerfile, one
\* without, a URL git cannot clone
Repos == {"none", "good", "nodockerfile", "unreachable"}

\* Assignment.new(grader, name, repo) on the assignments directory f of the
\* grader: what it leaves on the disk and what it raises
Assignment_new(f, name, repo) ==
    IF ~f.root
    THEN [fs |-> f, raised |-> "AssignmentException"]
    ELSE IF Exists(f, name)
    THEN [fs |-> f, raised |-> "AssignmentException"]
    ELSE IF NameRejected(name)
    THEN [fs |-> f, raised |-> "AssignmentException"]
    ELSE LET dirs == f.paths \cup {Dir(name, ""), Dir(name, "submissions"),
                                   Dir(name, "results")}
         IN  IF repo = "unreachable"
             THEN [fs |-> [f EXCEPT !.paths = dirs], raised |-> "GradeSheetException"]
             ELSE IF repo = "nodockerfile"
             THEN [fs |-> [f EXCEPT !.paths = dirs \cup {Dir(name, "gradesheet")}],
                   raised |-> "GradeSheetException"]
             ELSE [fs |-> [f EXCEPT !.paths = dirs \cup {Dir(name, "gradesheet"),
                                                         Dir(name, "gradesheet/Dockerfile")}],
                   raised |-> "none"]

\* "{}-{}-{}".format(config['course-id'], config['course-name'], self.name)
image_tag(a) == a.grader.id \o <<"-">> \o a.grader.course \o <<"-">> \o a.name

\* the assignment directories made so far
Created == {x \in Graders \X AssignmentNames : Dir(x[2], "") \in fs[x[1]].paths}

NoOutcome == [grader |-> <<>>, name |-> <<>>, repo |-> "none", raised |-> "none",
              before |-> <<>>]

\* there is no grader directory and nothing has been built
NoAssignments ==
    /\ fs = [g \in Graders |-> [root |-> FALSE, paths |-> {}]]
    /\ assignments = {}
    /\ images = {}
    /\ outcome = NoOutcome

\* one call of Assignment.new
New ==
    /\ Cardinality(Created) < MaxAssignments
    /\ UNCHANGED <<grading, images>>
    /\ \E g \in Graders, name \in AssignmentNames, repo \in Repos :
          LET r == Assignment_new(fs[g], name, repo)
          IN  /\ fs' = [fs EXCEPT ![g] = r.fs]
              /\ outcome' = [grader |-> g, name |-> name, repo |-> repo,
                             raised |-> r.raised, before |-> fs]
              /\ assignments' = IF r.raised = "none"
                                THEN assignments \cup {[grader |-> g, name |-> name]}
                                ELSE assignments

\* one call of build_image: cli.build(path=..., tag=self.image_tag)
BuildImage ==
    /\ UNCHANGED <<grading, fs, assignments, outcome>>
    /\ \E a \in assignments :
          images' = images \cup {[tag |-> image_tag(a), grader |-> a.grader,
                                  name |-> a.name]}

-----------------------------------------------------------------------------
(* The command line, the file system and the daemon before the first run *)

S_slash == <<"/">>
S_under == <<"_">>

FolderPaths == {S_HW8}

\* the directories and the files a batch folder may hold, in the order
\* os.walk lists them
DirNames == << S_alice \o S_submit, S_bob \o S_submit >>

FileNames == << S_alice \o S_submit \o S_targz, S_bob \o S_targz, S_carol \o S_zip >>

\* --extra and what it names on disk: no option, a plain file, a file with a
\* gzip name, a directory, nothing
Extras ==
    { [path |-> NoExtra, kind |-> "missing"],
      [path |-> S_extra, kind |-> "file"],
      [path |-> S_extra \o S_targz, kind |-> "file"],
      [path |-> S_extra, kind |-> "dir"],
      [path |-> S_extra, kind |-> "missing"] }

\* the elements of list whose positions are in S, in the order of list
RECURSIVE Pick(_, _)
Pick(list, S) ==
    IF S = {} THEN <<>>
    ELSE LET k == CHOOSE x \in S : \A y \in S : x <= y
         IN  <<list[k]>> \o Pick(list, S \ {k})

\* the listings os.walk can give of a folder with at most MaxSubs entries
Listings ==
    {<<Pick(DirNames, D), Pick(FileNames, F)>> :
        <<D, F>> \in {x \in (SUBSET (1..Len(DirNames))) \X (SUBSET (1..Len(FileNames))) :
                        Cardinality(x[1]) + Cardinality(x[2]) <= MaxSubs}}

\* a container that is there before the first run
Existing(id, names, image) ==
    [Id |-> id, Names |-> names, Image |-> image,
     NetworkDisabled |-> FALSE, MemLimit |-> 0, Files |-> <<>>]

\* the names the daemon reports for the containers of earlier batches
PreNames ==
    << << S_slash \o S_HW8 \o S_under \o S_alice >>,
       << S_proxy_db, S_slash \o S_HW8 \o S_under \o S_bob >> >>

\* a container that belongs to no batch
Unrelated == Existing(1, << S_web >>, "other-image")

\* the names of a daemon that reports a name as it was given, and of one that
\* puts another character in front of it
RawNames ==
    << << S_HW8 \o S_under \o S_alice >>,
       << <<"x">> \o S_HW8 \o S_under \o S_alice >>,
       << S_slash \o S_HW8 \o S_under \o S_bob >> >>

RECURSIVE PreList(_, _, _, _)
PreList(names, S, img, id) ==
    IF S = {} THEN <<>>
    ELSE LET k == CHOOSE x \in S : \A y \in S : x <= y
         IN  <<Existing(id, names[k], img[k])>> \o PreList(names, S \ {k}, img, id + 1)

NoCall == [kind |-> "none", index |-> 0, entry |-> <<>>, file |-> <<>>, name |-> <<>>,
           status |-> "none", before |-> <<>>, calls |-> <<>>]

NoPrev == [pc |-> "none", failures |-> {}, atStart |-> <<>>, containers |-> <<>>]

\* run.py is about to be invoked for the first time; the daemon holds
\* containers with names of pre
Started(pre) ==
    /\ \E folder \in FolderPaths, ex \in Extras, isDir \in BOOLEAN, l \in Listings :
          /\ ~isDir => l = << <<>>, <<>> >>
          /\ argv = [folder |-> folder, image |-> "course-hw8", extra |-> ex.path]
          /\ disk = [folderIsDir |-> isDir, extraKind |-> ex.kind,
                     dirnames |-> l[1], filenames |-> l[2]]
    /\ \E S \in SUBSET (1..Len(pre)) :
          /\ Cardinality(S) <= MaxPre
          /\ \E img \in [S -> Images] :
                /\ containers = PreList(pre, S, img, 2) \o <<Unrelated>>
                /\ nextId = Cardinality(S) + 2
    /\ atStart = containers
    /\ tmpfiles = {}
    /\ extra = argv.extra
    /\ cleanup = <<>>
    /\ pc = "start"
    /\ idx = 0
    /\ run = 1
    /\ calls = <<>>
    /\ failures = {}
    /\ last = NoCall
    /\ deleted = <<>>
    /\ made = <<>>
    /\ prev = NoPrev
    /\ injected = 0

Init == Started(PreNames) /\ NoAssignments

\* the same with a daemon that reports raw names
InitRaw == Started(RawNames) /\ NoAssignments

-----------------------------------------------------------------------------
(* grade *)

\* not os.path.isdir(args.folder), line 14
FolderRejected(d) == ~d.folderIsDir

\* the test of the extra path left out
ExtraRejected_Never(a, d) == FALSE

\* args.extra is not None and not os.path.isfile(args.extra), line 18
ExtraRejected(a, d) == a.extra # NoExtra /\ d.extraKind # "file"

\* mimetypes.guess_type(args.extra)[1] == 'gzip': decided by the name
GuessedGzip(path) == EndsWith(path, <<".", "g", "z">>)

\* os.path.isdir(args.extra) or mimetypes.guess_type(args.extra)[1] != 'gzip', lines 23-24
ExtraNeedsGzip(a, d) == d.extraKind = "dir" \/ ~GuessedGzip(a.extra)

\* gzip.open(extra) in create_container can read the path args.extra is bound to
ExtraReadable == extra \in tmpfiles \/ (extra = argv.extra /\ disk.extraKind = "file")

Submissions == Len(disk.dirnames) + Len(disk.filenames)

\* the points at which a call may be made to fail now
MayFail == {f \in FailPoints : f = "none" \/ injected < MaxFail}

\* make_gzip raises
GzipFails ==
    /\ pc' = "crashed"
    /\ failures' = failures \cup {"gzip"}
    /\ injected' = injected + 1
    /\ UNCHANGED <<tmpfiles, extra, cleanup, made>>

\* lines 12-32: the two checks, the extra archive, the listing
Validate ==
    /\ pc = "start"
    /\ UNCHANGED bookkeeping
    /\ UNCHANGED <<argv, disk, idx, containers, nextId, run, atStart, calls, last,
                   deleted, prev>>
    /\ IF FolderRejected(disk) \/ ExtraRejected(argv, disk)
       THEN /\ pc' = "returned"
            /\ UNCHANGED <<tmpfiles, extra, cleanup, failures, made, injected>>
       ELSE IF argv.extra # NoExtra /\ ExtraNeedsGzip(argv, disk)
       THEN \/ /\ disk.extraKind = "missing" \/ injected < MaxFail
               /\ GzipFails
            \/ /\ disk.extraKind # "missing"
               /\ extra' = MakeGzipPath(argv.extra, <<>>)
               /\ tmpfiles' = tmpfiles \cup {extra'}
               /\ cleanup' = Append(cleanup, extra')
               /\ made' = Append(made, extra')
               /\ pc' = "loop"
               /\ UNCHANGED <<failures, injected>>
       ELSE /\ pc' = "loop"
            /\ UNCHANGED <<tmpfiles, extra, cleanup, failures, made, injected>>

\* what one call of create_container leaves, lines 39 and 43-44
AfterCall(kind, entry, file, r) ==
    /\ containers' = r.containers
    /\ nextId' = r.nextId
    /\ calls' = calls \o r.calls
    /\ failures' = failures \cup r.failed
    /\ injected' = IF r.failed = {} THEN injected ELSE injected + 1
    /\ last' = [kind |-> kind, index |-> idx + 1, entry |-> entry, file |-> file,
                name |-> ContainerName(argv.folder, file),
                status |-> r.status, before |-> containers, calls |-> r.calls]
    /\ IF r.status = "raised"
       THEN pc' = "crashed" /\ idx' = idx
       ELSE pc' = "loop" /\ idx' = idx + 1

\* one turn of the loop of lines 35-39
GradeDir ==
    /\ pc = "loop"
    /\ UNCHANGED bookkeeping
    /\ idx < Len(disk.dirnames)
    /\ UNCHANGED <<argv, disk, extra, run, atStart, deleted, prev>>
    /\ LET entry == disk.dirnames[idx + 1]
           folder == Join(argv.folder, entry)
           name == StripSubmit(Basename(folder))
           file == MakeGzipPath(folder, name)
       IN  \/ /\ injected < MaxFail
              /\ pc' = "crashed"
              /\ failures' = failures \cup {"gzip"}
              /\ injected' = injected + 1
              /\ UNCHANGED <<tmpfiles, cleanup, made, idx, containers, nextId, calls, last>>
           \/ /\ tmpfiles' = tmpfiles \cup {file}
              /\ cleanup' = Append(cleanup, file)
              /\ made' = Append(made, file)
              /\ \E f \in MayFail :
                    AfterCall("dir", entry, file,
                              create_container(containers, nextId, argv.folder, file,
                                               argv.image, extra, ExtraReadable, f))

\* one turn of the loop of lines 42-44
GradeFile ==
    /\ pc = "loop"
    /\ UNCHANGED bookkeeping
    /\ idx >= Len(disk.dirnames)
    /\ idx < Submissions
    /\ UNCHANGED <<argv, disk, tmpfiles, extra, cleanup, run, atStart, deleted, made, prev>>
    /\ LET entry == disk.filenames[idx - Len(disk.dirnames) + 1]
           file == Join(argv.folder, entry)
       IN  \E f \in MayFail :
              AfterCall("file", entry, file,
                        create_container(containers, nextId, argv.folder, file,
                                         argv.image, extra, ExtraReadable, f))

\* os.remove over the cleanup list from its i-th path on, lines 47-48: the
\* files left, the paths deleted, and whether an os.remove raised
RECURSIVE RemoveAll(_, _, _, _)
RemoveAll(list, i, files, done) ==
    IF i > Len(list) THEN [files |-> files, deleted |-> done, raised |-> FALSE]
    ELSE IF list[i] \notin files THEN [files |-> files, deleted |-> done, raised |-> TRUE]
    ELSE RemoveAll(list, i + 1, files \ {list[i]}, Append(done, list[i]))

\* the cleanup that also takes the files of the batch folder for temporary
Cleanup_Inputs ==
    /\ pc = "loop"
    /\ UNCHANGED bookkeeping
    /\ idx = Submissions
    /\ UNCHANGED <<argv, disk, extra, cleanup, idx, containers, nextId, run, atStart,
                   calls, last, made, prev, injected>>
    /\ LET r == RemoveAll(cleanup, 1, tmpfiles, <<>>)
       IN  /\ tmpfiles' = r.files
           /\ deleted' = r.deleted \o [i \in 1..Len(disk.filenames) |->
                                           Join(argv.folder, disk.filenames[i])]
           /\ pc' = IF r.raised THEN "crashed" ELSE "done"
           /\ failures' = IF r.raised THEN failures \cup {"unlink"} ELSE failures

\* lines 46-48
Cleanup ==
    /\ pc = "loop"
    /\ UNCHANGED bookkeeping
    /\ idx = Submissions
    /\ UNCHANGED <<argv, disk, extra, cleanup, idx, containers, nextId, run, atStart,
                   calls, last, made, prev, injected>>
    /\ LET r == RemoveAll(cleanup, 1, tmpfiles, <<>>)
       IN  /\ tmpfiles' = r.files
           /\ deleted' = r.deleted
           /\ pc' = IF r.raised THEN "crashed" ELSE "done"
           /\ failures' = IF r.raised THEN failures \cup {"unlink"} ELSE failures

Ended == pc \in {"returned", "done", "crashed"}

\* run.py is invoked again with the same command line
Rerun ==
    /\ Ended
    /\ UNCHANGED bookkeeping
    /\ run < MaxRuns
    /\ run' = run + 1
    /\ prev' = [pc |-> pc, failures |-> failures, atStart |-> atStart,
                containers |-> containers]
    /\ pc' = "start"
    /\ idx' = 0
    /\ extra' = argv.extra
    /\ cleanup' = <<>>
    /\ atStart' = containers
    /\ calls' = <<>>
    /\ failures' = {}
    /\ last' = NoCall
    /\ deleted' = <<>>
    /\ made' = <<>>
    /\ UNCHANGED <<argv, disk, tmpfiles, containers, nextId, injected>>

Next == Validate \/ GradeDir \/ GradeFile \/ Cleanup \/ Rerun

Spec == Init /\ [][Next]_vars

SpecRaw == InitRaw /\ [][Next]_vars

\* run.py is not invoked
NotStarted ==
    /\ argv = [folder |-> S_HW8, image |-> "course-hw8", extra |-> NoExtra]
    /\ disk = [folderIsDir |-> FALSE, extraKind |-> "missing",
               dirnames |-> <<>>, filenames |-> <<>>]
    /\ containers = <<>>
    /\ nextId = 1
    /\ atStart = <<>>
    /\ tmpfiles = {}
    /\ extra = NoExtra
    /\ cleanup = <<>>
    /\ pc = "start"
    /\ idx = 0
    /\ run = 1
    /\ calls = <<>>
    /\ failures = {}
    /\ last = NoCall
    /\ deleted = <<>>
    /\ made = <<>>
    /\ prev = NoPrev
    /\ injected = 0

\* the assignments directory of at most one grader is missing; no assignment yet
InitAssign ==
    /\ NotStarted
    /\ \E missing \in SUBSET Graders :
          /\ Cardinality(missing) <= 1
          /\ fs = [g \in Graders |-> [root |-> g \notin missing, paths |-> {}]]
    /\ assignments = {}
    /\ images = {}
    /\ outcome = NoOutcome

NextAssign == New \/ BuildImage

SpecAssign == InitAssign /\ [][NextAssign]_vars

-----------------------------------------------------------------------------
(* Properties *)

\* the containers of list cs that are not in list ds any more
Gone(cs, ds) == {cs[i] : i \in {j \in 1..Len(cs) : cs[j].Id \notin Ids(ds)}}

\* the daemon reports n among the names of c
HasName(c, n) == \E k \in 1..Len(c.Names) : c.Names[k] = S_slash \o n

\* the file argument create_container gets for the i-th entry of the batch
FileOf(i) ==
    IF i <= Len(disk.dirnames)
    THEN MakeGzipPath(Join(argv.folder, disk.dirnames[i]), StripSubmit(disk.dirnames[i]))
    ELSE Join(argv.folder, disk.filenames[i - Len(disk.dirnames)])

\* the entries of the batch: the file argument of each and the name
\* create_container derives from it
Batch ==
    {LET f == FileOf(i)
     IN  [index |-> i, file |-> f, name |-> ContainerName(argv.folder, f)] :
        i \in 1..Submissions}

\* the container has the name of none of the entries
ForeignTo(c, batch) == \A b \in batch : ~HasName(c, b.name)

\* the calls of the latest create_container call that have operation op
LastCalls(op) == {k \in 1..Len(last.calls) : last.calls[k].op = op}

\* the lookup of the latest call listed the containers
LastListed == last.status # "none" /\ last.calls[1].op = "list" /\ last.calls[1].ok

\* the failures that belong to one submission
PerSubmission == {"remove", "create", "put", "putextra"}

\* C1: every step that takes a container away from the daemon is made for a
\* submission whose derived name is one of the container's names, and the
\* container's image is the image of the command line
C1_CollisionSafety ==
    [][\A c \in Gone(containers, containers') :
          /\ HasName(c, last'.name)
          /\ last'.name = ContainerName(argv.folder, FileOf(last'.index))
          /\ c.Image = argv.image]_vars

C1_Witness ==
    /\ run = 2
    /\ Gone(last.before, containers) # {}

\* C2: when only removals, creations or extractions failed, the run has not
\* crashed and, once ended past the validation, has taken every submission
C2_FailureIsolation ==
    failures \subseteq PerSubmission =>
        /\ pc # "crashed"
        /\ pc = "done" => idx = Submissions

\* C3: a run that passed the validation and has ended has left none of the
\* temporary archives it made, whatever failed for its submissions
C3_CleanupComplete ==
    (Ended /\ pc # "returned" /\ failures \subseteq PerSubmission) =>
        Range(made) \cap tmpfiles = {}

\* the names and image of every container of cs
NamesAndImages(cs) == {<<cs[i].Names, cs[i].Image>> : i \in 1..Len(cs)}

\* the second of two runs in succession has ended
SecondEnded == run >= 2 /\ Ended

\* every container the previous run made and left is gone, and another one
\* has its names and image; there are as many containers as before
Replaced ==
    /\ \A c \in Gone(prev.containers, prev.atStart) :
          /\ c.Id \notin Ids(containers)
          /\ \E i \in 1..Len(containers) :
                /\ containers[i].Names = c.Names
                /\ containers[i].Image = c.Image
                /\ containers[i].Id \notin Ids(prev.containers)
    /\ Len(containers) = Len(prev.containers)

C5_UniqueNames ==
    /\ \A i, j \in 1..last.index :
          i # j => ContainerName(argv.folder, FileOf(i)) # ContainerName(argv.folder, FileOf(j))
    /\ \A c \in Gone(last.before, containers) : c.Id \in Ids(atStart)

\* C6: the file alice_submit.tar.gz gets the display name alice, the
\* directory bob_submit gets bob, the file carol.zip gets carol, and the
\* container is named <basename of the batch folder>_<display name>
C6_DisplayNames ==
    /\ (last.kind = "file" /\ last.entry = S_alice \o S_submit \o S_targz)
          => last.name = S_HW8 \o S_under \o S_alice
    /\ (last.kind = "dir" /\ last.entry = S_bob \o S_submit)
          => last.name = S_HW8 \o S_under \o S_bob
    /\ (last.kind = "file" /\ last.entry = S_carol \o S_zip)
          => last.name = S_HW8 \o S_under \o S_carol

\* the command line is one that grade() must refuse
InvalidInput == ~disk.folderIsDir \/ (argv.extra # NoExtra /\ disk.extraKind # "file")

\* C7: with a batch folder that is no directory, or an extra path that is
\* no regular file, the run makes no call on the daemon, leaves its
\* containers as they were and goes no further than the two checks
C7_AbortBeforeContainers ==
    InvalidInput =>
        /\ calls = <<>>
        /\ containers = atStart
        /\ pc \in {"start", "returned"}
        /\ tmpfiles = {}

C7_Witness ==
    /\ pc = "returned"
    /\ disk.folderIsDir
    /\ argv.extra # NoExtra
    /\ Submissions > 0

\* C8: an extra path that names a directory is accepted: the run is not
\* refused, and in the loop args.extra is a temporary archive of the
\* cleanup list
C8_ExtraDirectoryAccepted ==
    (disk.folderIsDir /\ argv.extra # NoExtra /\ disk.extraKind = "dir") =>
        /\ pc # "returned"
        /\ pc = "loop" => extra \in Range(cleanup)

\* the daemon held, when the latest call listed it, a container under the
\* target name with another image / with the target image
FoundOtherImage ==
    /\ LastListed
    /\ \E i \in 1..Len(last.before) :
          HasName(last.before[i], last.name) /\ last.before[i].Image # argv.image

FoundSameImage ==
    /\ LastListed
    /\ \E i \in 1..Len(last.before) :
          HasName(last.before[i], last.name) /\ last.before[i].Image = argv.image

\* C9: a call whose lookup finds the target name under another image makes
\* no other call on the daemon, leaves every container as it was and
\* returns, and the loop goes past the submission
C9_MismatchSkip ==
    FoundOtherImage =>
        /\ containers = last.before
        /\ Len(last.calls) = 1
        /\ last.status = "skipped"
        /\ idx >= last.index

C9_Witness ==
    /\ FoundOtherImage
    /\ last.index = 2
    /\ pc = "done"

\* C10: a call whose forced removal of the same-named, same-image container
\* fails attempts no creation and no copy, leaves every container as it
\* was, and the loop goes past the submission
C10_RemovalFailure ==
    (FoundSameImage /\ \E k \in LastCalls("remove") : ~last.calls[k].ok) =>
        /\ LastCalls("create") = {}
        /\ LastCalls("put") = {}
        /\ containers = last.before
        /\ last.status = "removal_failed"
        /\ idx >= last.index

C10_Witness ==
    /\ FoundSameImage
    /\ \E k \in LastCalls("remove") : ~last.calls[k].ok
    /\ last.index = 1
    /\ Submissions = 2
    /\ pc = "loop"

\* the copies that can fail after the container is made
Extraction == {"put", "putextra"}

\* the ids of the containers the latest call made
LastMade == {last.calls[k].id : k \in {j \in LastCalls("create") : last.calls[j].ok}}

\* the container a failed copy of the previous run left: the newest one
LeftBehind == prev.containers[1]

\* the previous run stopped on a failed copy and the latest call of this run
\* has listed the container it left under the name the call derives
FindsLeftBehind ==
    /\ run >= 2
    /\ prev.failures \cap Extraction # {}
    /\ LastListed
    /\ LeftBehind.Id \in Ids(last.before)
    /\ HasName(LeftBehind, last.name)

\* C11: a run in which a copy into a new container failed still holds that
\* container; a later run that lists it under the derived name finds the
\* image of the command line and asks for its removal first, and for the
\* creation right after a removal that succeeds
C11_NoRollback ==
    /\ (failures \cap Extraction # {}) =>
          /\ LastMade # {}
          /\ LastMade \subseteq Ids(containers)
    /\ FindsLeftBehind =>
          /\ LeftBehind.Image = argv.image
          /\ Len(last.calls) >= 2
          /\ last.calls[2].op = "remove"
          /\ last.calls[2].id = LeftBehind.Id
          /\ last.calls[2].ok =>
                /\ Len(last.calls) >= 3
                /\ last.calls[3].op = "create"
                /\ last.calls[3].name = last.name
                /\ LeftBehind.Id \notin Ids(containers)

C11_Witness ==
    /\ FindsLeftBehind
    /\ last.status = "created"
    /\ LeftBehind.Files = <<>>

\* the k-th call of the run is a successful creation
IsCreated(k) == calls[k].op = "create" /\ calls[k].ok

\* the k-th call of the run is a copy that directly follows the creation of
\* its container, or the copy of the submission's archive into it
FollowsCreation(k) ==
    /\ k > 1
    /\ \/ IsCreated(k - 1) /\ calls[k - 1].id = calls[k].id
       \/ /\ k > 2
          /\ IsCreated(k - 2) /\ calls[k - 2].id = calls[k].id
          /\ calls[k - 1].op = "put" /\ calls[k - 1].ok /\ calls[k - 1].id = calls[k].id
          /\ calls[k].src = extra

\* C12: each creation is followed by the copy of the archive of the
\* submission that gave the container its name and, when that copy succeeds
\* and args.extra is set, by the copy of args.extra into the same container;
\* there is no other copy, and a container the run made holds these
\* archives in this order
C12_MaterializeOrder ==
    LET batch == Batch
    IN  /\ \A k \in 1..Len(calls) :
              /\ IsCreated(k) =>
                    /\ k < Len(calls)
                    /\ calls[k + 1].op = "put"
                    /\ calls[k + 1].id = calls[k].id
                    /\ \E b \in batch :
                          calls[k + 1].src = b.file /\ calls[k].name = b.name
                    /\ (calls[k + 1].ok /\ extra # NoExtra) =>
                          /\ k + 1 < Len(calls)
                          /\ calls[k + 2].op = "put"
                          /\ calls[k + 2].id = calls[k].id
                          /\ calls[k + 2].src = extra
              /\ calls[k].op = "put" => FollowsCreation(k)
        /\ \A c \in Gone(containers, atStart) :
              \E b \in batch :
                 /\ c.Names = << S_slash \o b.name >>
                 /\ c.Files \in {<<>>, <<b.file>>, <<b.file, extra>>}
                 /\ Len(c.Files) = 2 => extra # NoExtra

C12_Witness ==
    /\ pc = "done"
    /\ extra # NoExtra
    /\ Cardinality({c \in Gone(containers, atStart) : Len(c.Files) = 2}) = 2

\* the paths the run was given and passes on as they are
PassedThrough ==
    {Join(argv.folder, disk.filenames[i]) : i \in 1..Len(disk.filenames)}
        \cup {argv.extra}

DistinctNames ==
    LET batch == Batch
    IN  \A a, b \in batch : a.index # b.index => a.name # b.name

\* no container had the name of a submission when the run started
NoneExisting ==
    LET batch == Batch
    IN  \A k \in 1..Len(atStart) : ForeignTo(atStart[k], batch)

\* the run went through with no call failing
FailureFree == pc = "done" /\ failures = {} /\ NoneExisting /\ DistinctNames

\* the batch HW8 with the directory alice_submit and the file bob.tar.gz
ExampleBatch ==
    /\ argv.folder = S_HW8
    /\ disk.dirnames = << S_alice \o S_submit >>
    /\ disk.filenames = << S_bob \o S_targz >>

C18_NoStaleView ==
    \A k \in LastCalls("create") :
       \A i \in 1..Len(last.before) :
          HasName(last.before[i], last.name) =>
             \E j \in LastCalls("remove") :
                /\ j < k
                /\ last.calls[j].ok
                /\ last.calls[j].id = last.before[i].Id

C18_Witness ==
    /\ LastCalls("create") # {}
    /\ \E c \in Gone(last.before, containers) :
          /\ c.Id \notin Ids(atStart)
          /\ HasName(c, last.name)

\* the container belongs to no submission of the batch
Foreign(c) == ForeignTo(c, Batch)

\* C19: a container that was there when the run started and has none of the
\* names the batch derives is still there as it was, and no removal and no
\* copy of the run names it
C19_UnrelatedUntouched ==
    LET batch == Batch
    IN  \A k \in 1..Len(atStart) :
           ForeignTo(atStart[k], batch) =>
              /\ atStart[k] \in Range(containers)
              /\ \A j \in 1..Len(calls) :
                    calls[j].op \in {"remove", "put"} => calls[j].id # atStart[k].Id

C19_Witness ==
    /\ pc = "done"
    /\ Gone(containers, atStart) # {}
    /\ \E k \in 1..Len(atStart) :
          /\ Foreign(atStart[k])
          /\ atStart[k].Image = argv.image
          /\ atStart[k] \in Range(containers)

\* the name as the lookup is described: without its leading separator if it
\* has one
Stripped(n) == IF n # <<>> /\ n[1] = "/" THEN Tail(n) ELSE n

Described(c, name) == \E k \in 1..Len(c.Names) : Stripped(c.Names[k]) = name

C15_UniqueTags ==
    \A x, y \in images :
       x.tag = y.tag => x.grader = y.grader /\ x.name = y.name

\* one of the three conditions held when the latest call began
Refused ==
    LET f == outcome.before[outcome.grader]
    IN  ~f.root \/ Exists(f, outcome.name) \/ ~NAME_RE(outcome.name)

====
